---- MODULE Spec2Model ----
(***************************************************************************)
(* GUI Test Recorder CLI (src/main.ts): the binary resolver, the session   *)
(* store (tests/history.json), the record flow, the replay flow and the    *)
(* menu loop, as a state machine with one action per await point.          *)
(***************************************************************************)
EXTENDS Integers, Sequences, FiniteSets, TLC

\* ------------------------------------------------------------------ bounds
MaxHist == 2      \* record flows may append while the history is shorter
MaxClock == 2     \* largest value Date.now() takes
MaxPickLen == 2   \* longest text typed at the pick prompt
MaxTextLen == 5   \* longest history file, in JSON tokens, that SpecStore starts from

\* ------------------------------------------------------- program constants
MinViewers == 1
MaxViewers == 10

VARIABLES
  mode,        \* Deno.env PLAYWRIGHT_MODE
  pc,          \* position of the single thread of control
  flow,        \* "none" | "record" | "replay": the flow the menu dispatched
  probeG,      \* result of whichOk(defaultPlaywright) in this resolution
  probeN,      \* result of whichOk(defaultNPX) in this resolution
  pw,          \* the resolved PwInvoker
  err,         \* the Error in flight or last caught
  outcome,     \* how the last flow ended: "none" | "ok" | "error"
  file,        \* tests/history.json
  traces,      \* trace.zip files on disk (by path)
  now,         \* Date.now()
  rec,         \* locals of recordNewTest
  rep,         \* locals of replayTest
  jobs,        \* the show-trace subprocesses of replayTest
  child,       \* the subprocess a run() of the record flow awaits
  stats,       \* what this flow did so far: prompts shown, subprocesses spawned
  loaded       \* what the last loadHistory of SpecStore returned

vars == <<mode, pc, flow, probeG, probeN, pw, err, outcome, file, traces, now,
          rec, rep, jobs, child, stats, loaded>>

\* ------------------------------------------------------------ small utils
RECURSIVE Pow10(_)
Pow10(k) == IF k = 0 THEN 1 ELSE 10 * Pow10(k - 1)

Digits == <<"0", "1", "2", "3", "4", "5", "6", "7", "8", "9">>
IsDigit(c) == \E d \in 1..10 : Digits[d] = c
DigitVal(c) == (CHOOSE d \in 1..10 : Digits[d] = c) - 1

\* a non-negative integer in a template literal: its decimal digits
RECURSIVE ToStr(_)
ToStr(n) == IF n < 10 THEN <<Digits[n + 1]>> ELSE ToStr(n \div 10) \o <<Digits[(n % 10) + 1]>>

\* ----------------------------------------------------------- JS numbers
\* A JS number as the code meets it: NaN, or the decimal fraction num/den.
NaN == [nan |-> TRUE, num |-> 0, den |-> 1]
Num(n, d) == [nan |-> FALSE, num |-> n, den |-> d]
Int2Num(n) == Num(n, 1)
IsInteger(x) == ~x.nan /\ x.num % x.den = 0
NumLess(x, y) == x.num * y.den < y.num * x.den

\* Math.min / Math.max: NaN if either argument is NaN
MathMin(x, y) == IF x.nan \/ y.nan THEN NaN ELSE IF NumLess(y, x) THEN y ELSE x
MathMax(x, y) == IF x.nan \/ y.nan THEN NaN ELSE IF NumLess(x, y) THEN y ELSE x
NumMinus1(x) == IF x.nan THEN NaN ELSE Num(x.num - x.den, x.den)

\* String.prototype.trim on the characters of the model
RECURSIVE TrimLeft(_)
TrimLeft(s) == IF s # <<>> /\ Head(s) = " " THEN TrimLeft(Tail(s)) ELSE s
RECURSIVE TrimRight(_)
TrimRight(s) == IF s # <<>> /\ s[Len(s)] = " " THEN TrimRight(SubSeq(s, 1, Len(s) - 1)) ELSE s
Trim(s) == TrimRight(TrimLeft(s))

RECURSIVE DigitsVal(_)
DigitsVal(s) == IF s = <<>> THEN 0 ELSE 10 * DigitsVal(SubSeq(s, 1, Len(s) - 1)) + DigitVal(s[Len(s)])

\* an unsigned decimal literal: digits, at most one ".", at least one digit
UnsignedNumber(s) ==
  LET dots == {i \in 1..Len(s) : s[i] = "."}
      ds == SelectSeq(s, IsDigit)
  IN IF \/ \E i \in 1..Len(s) : ~IsDigit(s[i]) /\ s[i] # "."
        \/ Cardinality(dots) > 1
        \/ ds = <<>>
     THEN NaN
     ELSE LET frac == IF dots = {} THEN 0 ELSE Len(s) - (CHOOSE i \in dots : TRUE)
          IN Num(DigitsVal(ds), Pow10(frac))

\* Number(string): trim, "" is 0, optional sign, decimal literal, else NaN
ToNumber(str) ==
  LET t == Trim(str)
  IN IF t = <<>> THEN Int2Num(0)
     ELSE IF Head(t) = "-"
          THEN LET u == UnsignedNumber(Tail(t))
               IN IF u.nan THEN NaN ELSE Num(0 - u.num, u.den)
          ELSE IF Head(t) = "+" THEN UnsignedNumber(Tail(t))
          ELSE UnsignedNumber(t)

\* ------------------------------------------------------------- data model
TESTS_DIR == "tests"
SESSIONS_DIR == <<TESTS_DIR, "sessions">>
HISTORY_PATH == <<TESTS_DIR, "history.json">>

defaultPlaywright == "playwright"
defaultNPX == "npx"
defaultNode == "node"

\* a path under tests/sessions/<id>/
SessionPath(id, name) == [dir |-> SESSIONS_DIR, id |-> id, name |-> name]

DeviceTypes == {"pc", "mobile"}

\* HistoryEntry
HistoryEntry(id, url, device, createdAt, feedback) ==
  [id |-> id, url |-> url, device |-> device, createdAt |-> createdAt,
   feedback |-> feedback,
   scriptPath |-> SessionPath(id, "script.spec.ts"),
   tracePath |-> SessionPath(id, "trace.zip")]

NoEntry == HistoryEntry(<<>>, "", "", 0, "")

\* ------------------------------------------------------------------ JSON
\* The text of a file is a sequence of JSON tokens; an object is one token.
Tok(t) == [t |-> t, v |-> NoEntry]
LB == Tok("[")
RB == Tok("]")
COMMA == Tok(",")
JUNK == Tok("junk")
Obj(e) == [t |-> "{}", v |-> e]

\* A parsed array is the sequence of its items, each item kept as the JSON
\* value it is (an entry object e is the one-token value <<Obj(e)>>).
Item(e) == <<Obj(e)>>
EntryOf(item) == item[1].v

RECURSIVE ParseValue(_, _)
RECURSIVE ParseElements(_, _)
\* the index after the JSON value that starts at s[i]; 0 if there is none
ParseValue(s, i) ==
  IF i > Len(s) THEN 0
  ELSE IF s[i].t = "{}" THEN i + 1
  ELSE IF s[i].t = "["
       THEN IF i + 1 <= Len(s) /\ s[i + 1].t = "]" THEN i + 2 ELSE ParseElements(s, i + 1)
       ELSE 0
\* the index after the "]" closing the element list that starts at s[i]
ParseElements(s, i) ==
  LET j == ParseValue(s, i)
  IN IF j = 0 \/ j > Len(s) THEN 0
     ELSE IF s[j].t = "]" THEN j + 1
     ELSE IF s[j].t = "," THEN ParseElements(s, j + 1)
     ELSE 0

RECURSIVE ItemsFrom(_, _)
ItemsFrom(s, i) ==
  LET j == ParseValue(s, i)
  IN IF s[j].t = "]" THEN <<SubSeq(s, i, j - 1)>>
     ELSE <<SubSeq(s, i, j - 1)>> \o ItemsFrom(s, j + 1)

\* JSON.parse: raises on text that is not one JSON value
JSONparse(txt) ==
  IF ParseValue(txt, 1) # Len(txt) + 1
  THEN [raised |-> TRUE, isArray |-> FALSE, items |-> <<>>]
  ELSE IF txt[1].t # "["
       THEN [raised |-> FALSE, isArray |-> FALSE, items |-> <<>>]
       ELSE [raised |-> FALSE, isArray |-> TRUE,
             items |-> IF Len(txt) = 2 THEN <<>> ELSE ItemsFrom(txt, 2)]

RECURSIVE JoinItems(_)
JoinItems(items) ==
  IF items = <<>> THEN <<>>
  ELSE IF Len(items) = 1 THEN items[1]
  ELSE items[1] \o <<COMMA>> \o JoinItems(Tail(items))

\* JSON.stringify of an array
JSONstringify(items) == <<LB>> \o JoinItems(items) \o <<RB>>

\* --------------------------------------------------------- session store
AbsentFile == [kind |-> "absent", text |-> <<>>]
UnreadableFile == [kind |-> "unreadable", text |-> <<>>]
TextFile(txt) == [kind |-> "text", text |-> txt]

exists(f) == f.kind # "absent"
\* Deno.readTextFile: raises unless the file can be read
readTextFile(f) == [raised |-> f.kind # "text", text |-> f.text]

Returned(items) == [raised |-> FALSE, value |-> items]
Raised == [raised |-> TRUE, value |-> <<>>]

\* the body of loadHistory's try block
loadHistoryTry(f) ==
  LET txt == readTextFile(f)
      data == JSONparse(txt.text)
  IN IF txt.raised \/ data.raised THEN Raised
     ELSE Returned(IF data.isArray THEN data.items ELSE <<>>)

\* loadHistory without its catch clause
loadHistoryNoCatch(f) == IF ~exists(f) THEN Returned(<<>>) ELSE loadHistoryTry(f)

loadHistory(f) ==
  IF ~exists(f) THEN Returned(<<>>)
  ELSE IF loadHistoryTry(f).raised THEN Returned(<<>>) ELSE loadHistoryTry(f)

\* saveHistory overwriting the first entry's slot instead of the whole file
saveHistoryTruncating(f, entries) ==
  [raised |-> FALSE,
   file |-> TextFile(JSONstringify(IF entries = <<>> THEN <<>> ELSE <<entries[Len(entries)]>>))]

\* saveHistory: the file after it, and whether Deno.writeTextFile raised
saveHistory(f, entries) ==
  IF f.kind = "unreadable" THEN [raised |-> TRUE, file |-> f]
  ELSE [raised |-> FALSE, file |-> TextFile(JSONstringify(entries))]

\* history.push(entry)
Push(history, entry) == Append(history, Item(entry))

\* ------------------------------------------------------- binary resolver
Modes == {"global", "npx", "unset", "other"}   \* "unset": the variable is undefined

NoPw == [mode |-> "none", cmd |-> "none"]
GlobalInvoker == [mode |-> "global", cmd |-> defaultPlaywright]
NpxInvoker == [mode |-> "npx", cmd |-> defaultNPX]

\* pw.wrap(a)
Wrap(inv, a) == IF inv.mode = "npx" THEN <<"playwright">> \o a ELSE a

NoErr == "none"
ErrGlobalMissing == "PLAYWRIGHT_MODE=global but playwright not found"
ErrNpxMissing == "PLAYWRIGHT_MODE=npx but npx not found on PATH"
ErrNoneFound == "Could not find Playwright (global) or npx"
ErrInvalidDevice == "Invalid device selection"
ErrCommandFailed == "Command failed"
ErrTypeError == "TypeError: Cannot read properties of undefined"

Step(next, inv, e) == [next |-> next, inv |-> inv, e |-> e]

\* the probe resolvePlaywright starts with
FirstProbe(m) == IF m = "npx" THEN "try_npx" ELSE "try_global"

\* "global" falling back to the launcher when the direct binary is missing
AfterGlobalFallingBack(m, ok) ==
  IF ok THEN Step("return", GlobalInvoker, NoErr) ELSE Step("try_npx", NoPw, NoErr)

\* what resolvePlaywright does with the result of tryGlobal()
AfterGlobal(m, ok) ==
  IF ok THEN Step("return", GlobalInvoker, NoErr)
  ELSE IF m = "global" THEN Step("throw", NoPw, ErrGlobalMissing)
  ELSE Step("try_npx", NoPw, NoErr)

\* the launcher invoker returned without the null check
AfterNpxUnchecked(m, ok) == Step("return", NpxInvoker, NoErr)

\* what resolvePlaywright does with the result of tryNpx()
AfterNpx(m, ok) ==
  IF ok THEN Step("return", NpxInvoker, NoErr)
  ELSE IF m = "npx" THEN Step("throw", NoPw, ErrNpxMissing)
  ELSE Step("throw", NoPw, ErrNoneFound)

\* ------------------------------------------------------------ flow state
Urls == {"https://example.com"}
Feedbacks == {""}
DeviceInputs == {"pc", "mobile", "tablet"}
ExitCodes == {0, 1}
PickChars == {"0", "1", "2", "-", ".", "a"}
PickStrs == UNION {[1..k -> PickChars] : k \in 0..MaxPickLen}
\* numbers typed at the viewer-count prompt
CountInputs == {MinViewers - 1, MinViewers, MinViewers + 1, MaxViewers, MaxViewers + 1}

NoRec == [url |-> "", rawDevice |-> "", id |-> <<>>]
NoRep == [entries |-> <<>>, pick |-> "none", chosen |-> <<>>, n |-> 0]
NoCmd == [cmd |-> "none", args |-> <<>>]
NoJobs == [started |-> 0, running |-> 0, failed |-> FALSE, cmd |-> "none", args |-> <<>>]
NoStats == [prompts |-> {}, probes |-> 0, runs |-> 0]
NotLoaded == [called |-> FALSE, from |-> AbsentFile, raised |-> FALSE, value |-> <<>>]

LoadResult(f, r) == [called |-> TRUE, from |-> f, raised |-> r.raised, value |-> r.value]

Prompted(name) == [stats EXCEPT !.prompts = @ \cup {name}]
Probed == [stats EXCEPT !.probes = @ + 1]

\* files tests/history.json may hold when the program starts
InitFiles == {AbsentFile, TextFile(<<JUNK>>), TextFile(<<Obj(NoEntry)>>), TextFile(<<LB, RB>>)}

initOther ==
  /\ flow = "none" /\ probeG = "none" /\ probeN = "none" /\ pw = NoPw
  /\ err = NoErr /\ outcome = "none" /\ traces = {} /\ now = 1
  /\ rec = NoRec /\ rep = NoRep /\ jobs = NoJobs /\ child = NoCmd
  /\ stats = NoStats /\ loaded = NotLoaded

Init ==
  /\ mode \in Modes
  /\ pc = "start"
  /\ file \in InitFiles
  /\ initOther

\* ------------------------------------------------------------- menu loop
\* mainMenu before its loop: ensureDir, and an empty history if there is none
MainMenuStart ==
  /\ pc = "start"
  /\ file' = IF ~exists(file) THEN saveHistory(file, <<>>).file ELSE file
  /\ pc' = "menu"
  /\ UNCHANGED <<mode, flow, probeG, probeN, pw, err, outcome, traces, now,
                 rec, rep, jobs, child, stats, loaded>>

\* a catch clause that logs and rethrows, ending the process
CaughtRethrowing(e) == [pc |-> "crashed", err |-> e, outcome |-> "error"]

\* the catch clause of mainMenu: log the error and the hint, loop again
Caught(e) == [pc |-> "menu", err |-> e, outcome |-> "error"]

\* throw inside a flow: the error travels to the catch clause of mainMenu,
\* which runs before the next prompt
Throw(e) == pc' = Caught(e).pc /\ err' = Caught(e).err /\ outcome' = Caught(e).outcome

\* return from a flow: back to the top of the loop
FlowReturn == pc' = "menu" /\ outcome' = "ok" /\ err' = err

\* the flow goes on to its next await
Continue(next) == pc' = next /\ outcome' = outcome /\ err' = err

\* the first await of the flow after resolvePlaywright returned
AfterResolve(f) == IF f = "record" THEN "rec_url" ELSE "rep_load"

\* the Select prompt of the menu and the dispatch on its choice
MenuSelect(choice) ==
  /\ pc = "menu"
  /\ choice = "record" => Len(loadHistory(file).value) < MaxHist
  /\ flow' = choice
  /\ pc' = IF choice = "exit" THEN "exited" ELSE FirstProbe(mode)
  /\ stats' = [NoStats EXCEPT !.prompts = {"menu"}]
  /\ probeG' = "none" /\ probeN' = "none" /\ pw' = NoPw
  /\ err' = NoErr /\ outcome' = "none"
  /\ rec' = NoRec /\ rep' = NoRep /\ jobs' = NoJobs
  /\ UNCHANGED <<mode, file, traces, now, child, loaded>>

\* ---------------------------------------------- resolvePlaywright, steps
ApplyStep(st) ==
  /\ pw' = st.inv
  /\ IF st.next = "throw" THEN Throw(st.e)
     ELSE IF st.next = "return" THEN Continue(AfterResolve(flow))
     ELSE Continue(st.next)

\* tryGlobal(): whichOk(defaultPlaywright) and what follows from it
TryGlobal(ok) ==
  /\ pc = "try_global"
  /\ probeG' = IF ok THEN "ok" ELSE "fail"
  /\ stats' = Probed
  /\ ApplyStep(AfterGlobal(mode, ok))
  /\ UNCHANGED <<mode, flow, probeN, file, traces, now, rec, rep, jobs, child, loaded>>

\* tryNpx(): whichOk(defaultNPX) and what follows from it
TryNpx(ok) ==
  /\ pc = "try_npx"
  /\ probeN' = IF ok THEN "ok" ELSE "fail"
  /\ stats' = Probed
  /\ ApplyStep(AfterNpx(mode, ok))
  /\ UNCHANGED <<mode, flow, probeG, file, traces, now, rec, rep, jobs, child, loaded>>

\* run(cmd, args) up to its await: the subprocess it spawns
Command(cmd, args) == [cmd |-> cmd, args |-> args]
\* run after the await: a non-zero exit code raises
RunThrows(code) == code # 0

\* ------------------------------------------------------------ record flow
\* isDeviceType letting every string through
isDeviceTypeAny(x) == TRUE

isDeviceType(x) == x = "pc" \/ x = "mobile"

devicePreset(device) == IF device = "mobile" THEN "iPhone 13" ELSE "Desktop Chrome"

\* newId(): the decimal digits of Date.now()
newId(t) == ToStr(t)

PromptUrl(u) ==
  /\ pc = "rec_url"
  /\ rec' = [rec EXCEPT !.url = u]
  /\ stats' = Prompted("url")
  /\ Continue("rec_device")
  /\ UNCHANGED <<mode, flow, probeG, probeN, pw, file, traces, now, rep, jobs, child, loaded>>

\* the device prompt, the type guard, newId, ensureDir and the codegen spawn
PromptDevice(rawDevice, t) ==
  /\ pc = "rec_device"
  /\ IF ~isDeviceType(rawDevice)
     THEN /\ t = now
          /\ Throw(ErrInvalidDevice)
          /\ rec' = [rec EXCEPT !.rawDevice = rawDevice]
          /\ stats' = Prompted("device")
          /\ UNCHANGED <<now, child>>
     ELSE /\ now' = t
          /\ rec' = [rec EXCEPT !.rawDevice = rawDevice, !.id = newId(t)]
          /\ child' = Command(pw.cmd,
                              Wrap(pw, <<"codegen", rec.url, "--output",
                                         SessionPath(newId(t), "script.spec.ts"),
                                         "--device", devicePreset(rawDevice)>>))
          /\ stats' = [stats EXCEPT !.prompts = @ \cup {"device"}, !.runs = @ + 1]
          /\ Continue("rec_codegen")
  /\ UNCHANGED <<mode, flow, probeG, probeN, pw, file, traces, rep, jobs, loaded>>

\* the codegen subprocess exits
CodegenExit(code) ==
  /\ pc = "rec_codegen"
  /\ child' = NoCmd
  /\ IF RunThrows(code) THEN Throw(ErrCommandFailed) ELSE Continue("rec_confirm")
  /\ UNCHANGED <<mode, flow, probeG, probeN, pw, file, traces, now,
                 rec, rep, jobs, stats, loaded>>

\* the confirm prompt; on yes the helper is written and node is spawned
PromptConfirm(gen) ==
  /\ pc = "rec_confirm"
  /\ IF gen
     THEN /\ child' = Command(defaultNode, <<SessionPath(rec.id, "tracegen.js")>>)
          /\ stats' = [stats EXCEPT !.prompts = @ \cup {"confirm"}, !.runs = @ + 1]
          /\ Continue("rec_node")
     ELSE /\ child' = child
          /\ stats' = Prompted("confirm")
          /\ Continue("rec_feedback")
  /\ UNCHANGED <<mode, flow, probeG, probeN, pw, file, traces, now, rec, rep, jobs, loaded>>

\* the helper exits: exit code 0 if and only if tracing.stop wrote trace.zip
NodeExit(code) ==
  /\ pc = "rec_node"
  /\ traces' = IF RunThrows(code) THEN traces
               ELSE traces \cup {SessionPath(rec.id, "trace.zip")}
  /\ child' = NoCmd
  /\ IF RunThrows(code) THEN Throw(ErrCommandFailed) ELSE Continue("rec_feedback")
  /\ UNCHANGED <<mode, flow, probeG, probeN, pw, file, now, rec, rep, jobs, stats, loaded>>

\* the feedback prompt, then load, push, save and the report
PromptFeedback(feedback) ==
  /\ pc = "rec_feedback"
  /\ stats' = Prompted("feedback")
  /\ LET entry == HistoryEntry(rec.id, rec.url, rec.rawDevice, now, feedback)
         history == loadHistory(file)
         saved == saveHistory(file, Push(history.value, entry))
     IN /\ file' = saved.file
        /\ IF saved.raised THEN Throw(ErrCommandFailed) ELSE FlowReturn
  /\ UNCHANGED <<mode, flow, probeG, probeN, pw, traces, now, rec, rep, jobs, child, loaded>>

\* ------------------------------------------------------------ replay flow
\* loadHistory and the "no sessions" return
LoadEntries ==
  /\ pc = "rep_load"
  /\ LET history == loadHistory(file)
     IN /\ rep' = [rep EXCEPT !.entries = history.value]
        /\ IF Len(history.value) = 0 THEN FlowReturn ELSE Continue("rep_pick")
  /\ UNCHANGED <<mode, flow, probeG, probeN, pw, file, traces, now,
                 rec, jobs, child, stats, loaded>>

\* Math.max(1, Math.min(entries.length, Number(pickStr))) - 1
PickIndex(length, pickStr) ==
  NumMinus1(MathMax(Int2Num(1), MathMin(Int2Num(length), ToNumber(pickStr))))

\* entries[idx] is an element of the array
Defined(entries, idx) == IsInteger(idx) /\ idx.num >= 0 /\ idx.num \div idx.den < Len(entries)

\* where the number picked lies: what the flow remembers of it
PickKind(length, x) ==
  IF x.nan THEN "nan"
  ELSE IF NumLess(x, Int2Num(1)) THEN "below"
  ELSE IF NumLess(Int2Num(length), x) THEN "above"
  ELSE IF IsInteger(x) THEN "within" ELSE "between"

\* the answer to the pick prompt (an empty answer is its default), the clamp,
\* entries[idx] and the read of chosen.tracePath
PromptPickTyped(typed) ==
  /\ stats' = Prompted("pick")
  /\ LET pickStr == IF typed = <<>> THEN ToStr(Len(rep.entries)) ELSE typed
         idx == PickIndex(Len(rep.entries), pickStr)
     IN IF Defined(rep.entries, idx)
        THEN /\ rep' = [rep EXCEPT !.pick = PickKind(Len(rep.entries), ToNumber(pickStr)),
                                   !.chosen = rep.entries[(idx.num \div idx.den) + 1]]
             /\ Continue("rep_exists")
        ELSE /\ rep' = [rep EXCEPT !.pick = PickKind(Len(rep.entries), ToNumber(pickStr))]
             /\ Throw(ErrTypeError)
  /\ UNCHANGED <<mode, flow, probeG, probeN, pw, file, traces, now, rec, jobs, child, loaded>>

PromptPick == pc = "rep_pick" /\ \E typed \in PickStrs : PromptPickTyped(typed)

\* an existence check that always answers yes
existsAlways(path, fs) == TRUE

\* exists(path) for a trace artifact, fs being the trace files on disk
existsTrace(path, fs) == path \in fs

\* exists(chosen.tracePath) and the "no trace" return; the number picked is
\* not read again
CheckTrace ==
  /\ pc = "rep_exists"
  /\ rep' = [rep EXCEPT !.pick = "none"]
  /\ IF ~existsTrace(EntryOf(rep.chosen).tracePath, traces) THEN FlowReturn
     ELSE Continue("rep_count")
  /\ UNCHANGED <<mode, flow, probeG, probeN, pw, file, traces, now,
                 rec, jobs, child, stats, loaded>>

\* a loop that stops one short
LoopContinuesShort(i, n) == i < n - 1

\* the loop condition i < n
LoopContinues(i, n) == i < n

\* jobs.push(run(...)): run spawns the viewer and returns at its await
PushJob(j, cmd) ==
  [started |-> j.started + 1, running |-> j.running + 1, failed |-> j.failed,
   cmd |-> cmd.cmd, args |-> cmd.args]

\* for (let i = 0; i < n; i++) jobs.push(run(...))
RECURSIVE LaunchLoop(_, _, _, _)
LaunchLoop(i, n, j, cmd) ==
  IF LoopContinues(i, n) THEN LaunchLoop(i + 1, n, PushJob(j, cmd), cmd) ELSE j

\* the viewer-count prompt, which takes no answer outside min..max, and the
\* launch loop
PromptCount(n) ==
  /\ pc = "rep_count"
  /\ n \in MinViewers..MaxViewers
  /\ rep' = [rep EXCEPT !.n = n]
  /\ jobs' = LaunchLoop(0, n, NoJobs,
                        Command(pw.cmd, Wrap(pw, <<"show-trace", EntryOf(rep.chosen).tracePath>>)))
  /\ stats' = [stats EXCEPT !.prompts = @ \cup {"count"}, !.runs = @ + jobs'.started]
  /\ Continue("rep_join")
  /\ UNCHANGED <<mode, flow, probeG, probeN, pw, file, traces, now, rec, child, loaded>>

\* a join that resolves with the first viewer to finish
ResolvesOnFirst(j) == j.running < j.started /\ ~j.failed

\* Promise.all resolves once every job has resolved
PromiseAllResolves(j) == j.running = 0 /\ ~j.failed
\* Promise.all rejects as soon as one job has rejected
PromiseAllRejects(j) == j.failed

\* a viewer exits while replayTest awaits Promise.all(jobs): its run() settles,
\* and the await continues if that settles the join
ViewerExit(code) ==
  /\ pc = "rep_join"
  /\ jobs.running > 0
  /\ jobs' = [jobs EXCEPT !.running = @ - 1, !.failed = @ \/ RunThrows(code)]
  /\ IF PromiseAllRejects(jobs') THEN Throw(ErrCommandFailed)
     ELSE IF PromiseAllResolves(jobs') THEN FlowReturn
     ELSE Continue("rep_join")
  /\ UNCHANGED <<mode, flow, probeG, probeN, pw, file, traces, now,
                 rec, rep, child, stats, loaded>>

\* a viewer left running by a replay that has ended exits
OrphanExit(code) ==
  /\ pc = "menu"
  /\ jobs.running > 0
  /\ jobs' = [jobs EXCEPT !.running = @ - 1]
  /\ UNCHANGED <<mode, pc, flow, probeG, probeN, pw, err, outcome, file, traces, now,
                 rec, rep, child, stats, loaded>>

\* ---------------------------------------------------------- specification
Next ==
  \/ MainMenuStart
  \/ \E choice \in {"record", "replay", "exit"} : MenuSelect(choice)
  \/ \E ok \in BOOLEAN : TryGlobal(ok)
  \/ \E ok \in BOOLEAN : TryNpx(ok)
  \/ \E u \in Urls : PromptUrl(u)
  \/ \E d \in DeviceInputs, t \in now..MaxClock : PromptDevice(d, t)
  \/ \E code \in ExitCodes : CodegenExit(code)
  \/ \E gen \in BOOLEAN : PromptConfirm(gen)
  \/ \E code \in ExitCodes : NodeExit(code)
  \/ \E fb \in Feedbacks : PromptFeedback(fb)
  \/ LoadEntries
  \/ PromptPick
  \/ CheckTrace
  \/ \E n \in CountInputs : PromptCount(n)
  \/ \E code \in ExitCodes : ViewerExit(code)
  \/ \E code \in ExitCodes : OrphanExit(code)

Spec == Init /\ [][Next]_vars

\* ------------------------------------------- the session store on its own
StoreEntry == HistoryEntry(<<"1">>, "https://example.com", "pc", 1, "")
StoreTokens == {LB, RB, COMMA, JUNK, Obj(StoreEntry)}
StoreFiles ==
  {AbsentFile, UnreadableFile}
    \cup {TextFile(txt) : txt \in UNION {[1..k -> StoreTokens] : k \in 0..MaxTextLen}}

InitStore ==
  /\ mode = "unset"
  /\ pc = "store"
  /\ file \in StoreFiles
  /\ initOther

\* load()
StoreLoad ==
  /\ pc \in {"store", "store_saved"}
  /\ loaded' = LoadResult(file, loadHistory(file))
  /\ pc' = IF pc = "store" THEN "store_loaded" ELSE "store_done"
  /\ UNCHANGED <<mode, flow, probeG, probeN, pw, err, outcome, file, traces, now,
                 rec, rep, jobs, child, stats>>

\* save() of what load() returned
StoreSave ==
  /\ pc = "store_loaded"
  /\ file' = saveHistory(file, loaded.value).file
  /\ pc' = "store_saved"
  /\ UNCHANGED <<mode, flow, probeG, probeN, pw, err, outcome, traces, now,
                 rec, rep, jobs, child, stats, loaded>>

NextStore == StoreLoad \/ StoreSave

SpecStore == InitStore /\ [][NextStore]_vars

\* ------------------------------------------------------------ properties
\* the session history as the tool reads it back
HistoryOf(f) == loadHistory(f).value
Range(q) == {q[i] : i \in DOMAIN q}
ResolverErrors == {ErrGlobalMissing, ErrNpxMissing, ErrNoneFound}
\* the replay flow has ended and control is back at the menu
ReplayEnded == flow = "replay" /\ pc = "menu"
\* the replay flow got as far as launching its viewers
Launched == rep.n # 0

\* C1: the outcome of resolvePlaywright is a function of the mode and the two
\* probe results: "global" probes only the direct binary and returns it or
\* fails; "npx" probes only the launcher and returns it (its wrap putting
\* "playwright" in front of the arguments) or fails; otherwise the direct
\* binary is probed first, the launcher only after the direct probe failed,
\* the first success is returned and the resolution fails when both fail.
C1_ResolverOutcome ==
  /\ mode = "global" => probeN = "none"
  /\ mode = "npx" => probeG = "none"
  /\ (mode # "npx" /\ probeN # "none") => probeG = "fail"
  /\ probeG = "ok" => probeN = "none" /\ pw = GlobalInvoker /\ err \notin ResolverErrors
  /\ probeN = "ok" => pw = NpxInvoker /\ err \notin ResolverErrors
  /\ (mode = "global" /\ probeG = "fail") => pw = NoPw /\ err = ErrGlobalMissing
  /\ (mode = "npx" /\ probeN = "fail") => pw = NoPw /\ err = ErrNpxMissing
  /\ (mode \notin {"global", "npx"} /\ probeN = "fail") => pw = NoPw /\ err = ErrNoneFound
  /\ pw # NoPw => \/ pw = GlobalInvoker /\ probeG = "ok"
                  \/ pw = NpxInvoker /\ probeN = "ok"
  /\ err \in ResolverErrors => pw = NoPw /\ "fail" \in {probeG, probeN}
  /\ jobs.started > 0 =>
       jobs.args = IF pw = NpxInvoker
                   THEN <<"playwright", "show-trace", EntryOf(rep.chosen).tracePath>>
                   ELSE <<"show-trace", EntryOf(rep.chosen).tracePath>>

\* the auto-detected launcher invoker has started its viewers
C1_Witness ==
  /\ mode = "unset" /\ probeG = "fail" /\ probeN = "ok" /\ pw = NpxInvoker
  /\ jobs.started > 0 /\ jobs.cmd = defaultNPX

\* C2 (as claimed): whatever is typed at the pick prompt of a non-empty
\* history, the chosen entry is an element of the history, a pick below 1
\* being entry 1 and a pick above the count the last entry, and nothing raises.
C2_PickAlwaysDefined ==
  (flow = "replay" /\ rep.pick # "none") =>
    /\ err # ErrTypeError
    /\ rep.chosen \in Range(rep.entries)
    /\ rep.pick = "below" => rep.chosen = rep.entries[1]
    /\ rep.pick = "above" => rep.chosen = rep.entries[Len(rep.entries)]

\* C3: an error raised in a flow is caught by the menu loop, which offers the
\* menu again; the loop ends only on the choice "exit" and the process never
\* ends on a flow's error.
C3_ErrorsContained ==
  /\ pc # "crashed"
  /\ err # NoErr => pc = "menu" /\ outcome = "error" /\ flow \in {"record", "replay"}
  /\ outcome = "error" => err # NoErr
  /\ pc = "exited" => flow = "exit" /\ err = NoErr

\* a subprocess failure of a replay was caught and the menu is offered again
C3_Witness == pc = "menu" /\ flow = "replay" /\ err = ErrCommandFailed /\ outcome = "error"

\* C4: the persisted history changes only in the last step of a record flow
\* that went through all its prompts, and then by one entry appended at the
\* end, the entries before it unchanged in value and position.
C4_AppendOnly ==
  [][ \/ HistoryOf(file') = HistoryOf(file)
      \/ /\ flow = "record" /\ pc = "rec_feedback" /\ outcome' = "ok"
         /\ {"menu", "url", "device", "confirm"} \subseteq stats.prompts
         /\ Len(HistoryOf(file')) = Len(HistoryOf(file)) + 1
         /\ SubSeq(HistoryOf(file'), 1, Len(HistoryOf(file))) = HistoryOf(file) ]_vars

\* a second entry was appended behind the first
C4_Witness ==
  /\ pc = "menu" /\ flow = "record" /\ outcome = "ok"
  /\ Len(HistoryOf(file)) = 2

\* the file holds no array the tool could read back
BadFile(f) ==
  \/ f.kind = "absent"
  \/ f.kind = "unreadable"
  \/ JSONparse(f.text).raised
  \/ ~JSONparse(f.text).isArray

\* C5: loadHistory never raises; it returns the empty sequence for a file that
\* is absent, unreadable, not JSON or not a JSON array, and the persisted
\* sequence (the one whose serialisation the file holds) otherwise.
C5_LoadNeverRaises ==
  loaded.called =>
    /\ ~loaded.raised
    /\ BadFile(loaded.from) => loaded.value = <<>>
    /\ ~BadFile(loaded.from) => JSONstringify(loaded.value) = loaded.from.text
    /\ loaded.from = TextFile(<<LB, Obj(StoreEntry), COMMA, Obj(StoreEntry), RB>>)
         => loaded.value = <<Item(StoreEntry), Item(StoreEntry)>>

\* loadHistory met a file that is not JSON
C5_Witness ==
  /\ loaded.called /\ loaded.from.kind = "text"
  /\ JSONparse(loaded.from.text).raised /\ loaded.value = <<>>

\* C6: N viewers requested, N in 1..10: exactly N show-trace subprocesses are
\* started on the chosen entry's trace path, all of them before the join on
\* them completes.
C6_ExactlyNViewers ==
  /\ Launched =>
       /\ rep.n \in MinViewers..MaxViewers
       /\ jobs.started = rep.n
       /\ stats.runs = rep.n
       /\ jobs.cmd = pw.cmd
       /\ jobs.args = Wrap(pw, <<"show-trace", EntryOf(rep.chosen).tracePath>>)
       /\ pc \in {"rep_join", "menu"}
  /\ jobs.started > 0 => Launched
  /\ pc = "rep_join" => Launched /\ jobs.running > 0

\* the largest count: ten viewers running, the join not yet complete
C6_Witness == pc = "rep_join" /\ rep.n = MaxViewers /\ jobs.running = MaxViewers

\* C7 (as claimed): the replay flow never ends, with success or with an error,
\* while one of the viewers it launched is still running.
C7_NeverEndsWhileRunning == (ReplayEnded /\ Launched) => jobs.running = 0

\* C7 (amended): success is reported only after all N viewers have exited with
\* status 0; the flow ends with an error only after a viewer has exited with
\* a non-zero status, whether or not the others are still running.
C7_JoinAll ==
  /\ (ReplayEnded /\ Launched /\ outcome = "ok") =>
       jobs.running = 0 /\ ~jobs.failed /\ jobs.started = rep.n
  /\ (ReplayEnded /\ Launched /\ outcome = "error") =>
       jobs.failed /\ err = ErrCommandFailed
  /\ pc = "rep_join" => ~jobs.failed /\ jobs.running > 0

\* success reported after all ten viewers exited
C7_Witness ==
  /\ ReplayEnded /\ outcome = "ok" /\ rep.n = MaxViewers
  /\ jobs.started = MaxViewers /\ jobs.running = 0

\* the device prompt was answered
DeviceAnswered == rec.rawDevice # ""

C9_FailsBeforeAnyPrompt ==
  (mode = "npx" /\ probeN = "fail") => err = ErrNpxMissing /\ stats.prompts = {}

\* C9 (amended): with the mode "npx" and a failed launcher probe, the
\* resolution fails with the configuration error before any prompt of the
\* flow is shown; the menu prompt that started the flow is the only one shown.
C9_FailsBeforeFlowPrompts ==
  (mode = "npx" /\ probeN = "fail") =>
    /\ pc = "menu" /\ outcome = "error" /\ err = ErrNpxMissing /\ pw = NoPw
    /\ stats.prompts = {"menu"}
    /\ stats.runs = 0 /\ stats.probes = 1

\* a record flow stopped at the resolver
C9_Witness ==
  /\ mode = "npx" /\ probeN = "fail" /\ flow = "record"
  /\ err = ErrNpxMissing /\ stats.prompts = {"menu"}

\* the chosen entry's trace file is not on disk
ChosenTraceAbsent == rep.chosen # <<>> /\ EntryOf(rep.chosen).tracePath \notin traces

\* C10 (as claimed): viewers are launched only for a non-empty history and a
\* chosen entry whose trace file exists; a replay with an empty history or of
\* an entry without trace file returns without error and without a viewer.
C10_QuietReturn ==
  /\ jobs.started > 0 =>
       /\ Len(rep.entries) > 0 /\ rep.chosen \in Range(rep.entries)
       /\ EntryOf(rep.chosen).tracePath \in traces
  /\ (ReplayEnded /\ (HistoryOf(file) = <<>> \/ ChosenTraceAbsent)) =>
       outcome = "ok" /\ jobs.started = 0

\* C10 (amended): viewers are launched only for a non-empty history and a
\* chosen entry whose trace file exists; a replay whose invoker was resolved
\* returns without error and without a viewer when the history is empty or
\* the chosen entry has no trace file; a replay whose resolution failed ends
\* with the resolver's error, without a viewer.
C10_ViewerOnlyWithTrace ==
  /\ jobs.started > 0 =>
       /\ Len(rep.entries) > 0 /\ rep.chosen \in Range(rep.entries)
       /\ EntryOf(rep.chosen).tracePath \in traces
  /\ (ReplayEnded /\ pw # NoPw /\ (HistoryOf(file) = <<>> \/ ChosenTraceAbsent)) =>
       outcome = "ok" /\ jobs.started = 0 /\ stats.runs = 0
  /\ (ReplayEnded /\ pw = NoPw) =>
       outcome = "error" /\ err \in ResolverErrors /\ jobs.started = 0 /\ stats.runs = 0

\* a replay of the second of two entries, which has no trace file, returned
C10_Witness ==
  /\ ReplayEnded /\ outcome = "ok" /\ Len(rep.entries) = 2
  /\ rep.chosen = rep.entries[2] /\ ChosenTraceAbsent /\ jobs.started = 0

====
